---------------------------- MODULE Spec2Model ----------------------------
(***************************************************************************)
(* A model of the TCP proxy of src/proxy.py: the accept loop (main), the   *)
(* session manager (handle_client), the two forwarders of a session        *)
(* (forward_data), the shared URL counter and the shutdown handler         *)
(* (handle_exit).                                                          *)
(*                                                                         *)
(* Bytes are one-character strings and a chunk is a sequence of bytes, so  *)
(* that the text handling of forward_data (decode, splitlines, split,      *)
(* insert, join, encode) is computed the way the code computes it.         *)
(***************************************************************************)
EXTENDS Integers, Sequences, FiniteSets, TLC

(***************************************************************************)
(* Bytes and text helpers (Python's bytes / str operations)                *)
(***************************************************************************)
CR == "\r"
LF == "\n"
SP == " "
TAB == "\t"
\* A byte that is not valid UTF-8; decode(errors='ignore') drops it.
BAD == "xFF"

CRLF == <<CR, LF>>

\* The bytes b"HTTP" looked for in a Request chunk (line 256).
HTTP_MARKER == <<"H", "T", "T", "P">>

\* The characters str.split() and str.strip() treat as whitespace.
Whitespace == {SP, TAB, CR, LF}

\* bytes.decode(errors='ignore'): invalid bytes are dropped (line 257).
Decode(b) == SelectSeq(b, LAMBDA c : c # BAD)

\* str.encode(): the text of the model is ASCII, one byte per character.
Encode(s) == s

\* `pat in s` for byte strings and strings: pat occurs as a contiguous run.
Contains(s, pat) ==
    \E i \in 0..(Len(s) - Len(pat)) :
        \A j \in 1..Len(pat) : s[i + j] = pat[j]

\* The index of the first ":" of s, 0 when there is none.
FirstColon(s) ==
    IF \E i \in 1..Len(s) : s[i] = ":"
    THEN CHOOSE i \in 1..Len(s) : s[i] = ":" /\ \A j \in 1..(i - 1) : s[j] # ":"
    ELSE 0

\* str.splitlines(): lines end at "\r\n", "\r" or "\n"; the terminators are
\* dropped and a terminator at the very end opens no further line.
RECURSIVE SplitLinesFrom(_, _, _)
SplitLinesFrom(s, i, cur) ==
    IF i > Len(s)
    THEN IF cur = <<>> THEN <<>> ELSE <<cur>>
    ELSE IF s[i] = CR
         THEN <<cur>> \o SplitLinesFrom(s, IF i < Len(s) /\ s[i + 1] = LF THEN i + 2 ELSE i + 1, <<>>)
         ELSE IF s[i] = LF
              THEN <<cur>> \o SplitLinesFrom(s, i + 1, <<>>)
              ELSE SplitLinesFrom(s, i + 1, Append(cur, s[i]))

SplitLines(s) == SplitLinesFrom(s, 1, <<>>)

\* str.split() with no argument: the non-empty runs of non-whitespace.
RECURSIVE SplitFrom(_, _, _)
SplitFrom(s, i, cur) ==
    IF i > Len(s)
    THEN IF cur = <<>> THEN <<>> ELSE <<cur>>
    ELSE IF s[i] \in Whitespace
         THEN (IF cur = <<>> THEN <<>> ELSE <<cur>>) \o SplitFrom(s, i + 1, <<>>)
         ELSE SplitFrom(s, i + 1, Append(cur, s[i]))

Split(s) == SplitFrom(s, 1, <<>>)

\* str.strip(): leading and trailing whitespace removed.
RECURSIVE LStrip(_)
LStrip(s) == IF s # <<>> /\ Head(s) \in Whitespace THEN LStrip(Tail(s)) ELSE s

RECURSIVE RStrip(_)
RStrip(s) ==
    IF s # <<>> /\ s[Len(s)] \in Whitespace THEN RStrip(SubSeq(s, 1, Len(s) - 1)) ELSE s

Strip(s) == RStrip(LStrip(s))

\* sep.join(lines)
RECURSIVE Join(_, _)
Join(lines, sep) ==
    IF lines = <<>> THEN <<>>
    ELSE IF Len(lines) = 1 THEN lines[1]
         ELSE lines[1] \o sep \o Join(Tail(lines), sep)

\* list.insert(1, x) on a list of at least one element.
Insert1(lines, x) == <<lines[1], x>> \o Tail(lines)


(***************************************************************************)
(* HTTP inspection of a Request chunk (forward_data, lines 256-305)        *)
(***************************************************************************)
\* An inspection that looks for the marker and not at the direction.
Inspected_AnyDirection(direction, data) == Contains(data, HTTP_MARKER)

\* Line 256: inspection runs for Request chunks that contain b"HTTP".
Inspected(direction, data) == direction = "Request" /\ Contains(data, HTTP_MARKER)

\* Lines 257-258: lines = data.decode(errors='ignore').splitlines().
LinesOf(data) == SplitLines(Decode(data))

RequestLine(data) == LinesOf(data)[1]

\* A parse that takes the first tokens of a request line of two or more.
ParsesOk_TwoOrMore(data) == Len(Split(RequestLine(data))) >= 2

\* Line 260: method, url, _ = request_line.split() raises ValueError unless
\* the request line has exactly three tokens.
ParsesOk(data) == Len(Split(RequestLine(data))) = 3

\* Line 260: the second token.
UrlOf(data) == Split(RequestLine(data))[2]

\* Line 266: if block_url and block_url in url.
IsBlocked(block, url) == block # <<>> /\ Contains(url, block)

\* Lines 288-290: header_key, header_value = inject_header.split(":", 1);
\* header_line = f"{header_key}: {header_value.strip()}\r\n".
HeaderLine(inject) ==
    LET k == FirstColon(inject)
        header_key == SubSeq(inject, 1, k - 1)
        header_value == Strip(SubSeq(inject, k + 1, Len(inject)))
    IN header_key \o <<":", SP>> \o header_value \o CRLF

\* Line 293: len(lines) > 1 and ":" in lines[1].
HeadersExist(lines) == Len(lines) > 1 /\ Contains(lines[2], <<":">>)

\* Lines 286-300: the chunk after the inject policy. With no inject header the
\* chunk is left alone; an inject header without ":" raises ValueError, caught
\* at line 304, and the chunk is left alone; otherwise the chunk is replaced
\* by the rejoined lines (with or without the new header) plus "\r\n\r\n".
Rewrite(data, inject) ==
    IF inject = <<>> \/ FirstColon(inject) = 0
    THEN data
    ELSE LET lines == LinesOf(data)
             newLines == IF HeadersExist(lines)
                         THEN Insert1(lines, Strip(HeaderLine(inject)))
                         ELSE lines
         IN Encode(Join(newLines, CRLF)) \o CRLF \o CRLF

\* Lines 256-307 for one chunk: whether the URL is counted, whether the
\* request is blocked, and the bytes handed to dest.sendall (none if blocked).
Inspect(direction, data, block, inject) ==
    IF ~Inspected(direction, data) \/ ~ParsesOk(data)
    THEN [counted |-> FALSE, url |-> <<>>, blocked |-> FALSE, out |-> data]
    ELSE IF IsBlocked(block, UrlOf(data))
         THEN [counted |-> TRUE, url |-> UrlOf(data), blocked |-> TRUE, out |-> <<>>]
         ELSE [counted |-> TRUE, url |-> UrlOf(data), blocked |-> FALSE,
               out |-> Rewrite(data, inject)]

(***************************************************************************)
(* The URL counter (collections.Counter, line 36): a dict, which keeps its *)
(* keys in insertion order, as a sequence of [url, n] entries.             *)
(***************************************************************************)
HasKey(counter, url) == \E i \in 1..Len(counter) : counter[i].url = url

\* url_counter[url]: a missing key reads as 0.
CountOf(counter, url) ==
    IF HasKey(counter, url)
    THEN counter[CHOOSE i \in 1..Len(counter) : counter[i].url = url].n
    ELSE 0

\* url_counter[url] = n: an existing key keeps its place, a new one goes last.
SetCount(counter, url, n) ==
    IF HasKey(counter, url)
    THEN LET i == CHOOSE i \in 1..Len(counter) : counter[i].url = url
         IN SubSeq(counter, 1, i - 1) \o <<[url |-> url, n |-> n]>>
                \o SubSeq(counter, i + 1, Len(counter))
    ELSE Append(counter, [url |-> url, n |-> n])

RECURSIVE SumCounts(_)
SumCounts(counter) ==
    IF counter = <<>> THEN 0 ELSE Head(counter).n + SumCounts(Tail(counter))

\* The number of entries of the report: most_common(10), line 61.
TOP_N == 10

\* The first n entries in insertion order, not sorted by count.
MostCommon_InsertionOrder(counter, n) ==
    SubSeq(counter, 1, IF n < Len(counter) THEN n ELSE Len(counter))

\* Counter.most_common(n): by count, highest first; sorted() is stable, so
\* entries of equal count keep their insertion order.
RECURSIVE MostCommon(_, _)
MostCommon(counter, n) ==
    IF n = 0 \/ counter = <<>> THEN <<>>
    ELSE LET i == CHOOSE i \in 1..Len(counter) :
                     /\ \A j \in 1..Len(counter) : counter[j].n <= counter[i].n
                     /\ \A j \in 1..(i - 1) : counter[j].n < counter[i].n
             rest == SubSeq(counter, 1, i - 1) \o SubSeq(counter, i + 1, Len(counter))
         IN <<counter[i]>> \o MostCommon(rest, n - 1)

(***************************************************************************)
(* Bounds of the model and the inputs of the environment                   *)
(***************************************************************************)
\* The number of connections the environment makes.
MaxSessions == 2
\* The number of chunks the peers send, over all sessions and directions.
MaxChunks == 2
\* The number of termination signals delivered.
MaxSignals == 2

Sessions == 1..MaxSessions
Directions == {"Request", "Response"}

\* "G /a HTTP\r\nA:b\r\n\r\n": a request with one header line.
REQ_A == <<"G", SP, "/", "a", SP, "H", "T", "T", "P">> \o CRLF \o <<"A", ":", "b">> \o CRLF \o CRLF
\* "G /ad HTTP\r\n\r\n": a request with no header line.
REQ_AD == <<"G", SP, "/", "a", "d", SP, "H", "T", "T", "P">> \o CRLF \o CRLF
\* "G HTTP\r\n\r\n": the marker, but two tokens on the first line.
REQ_SHORT == <<"G", SP, "H", "T", "T", "P">> \o CRLF \o CRLF
\* "xy": no marker.
RAW == <<"x", "y">>
\* "HTTP 200 ok\r\n\r\n": what an upstream answers.
RESP_OK == <<"H", "T", "T", "P", SP, "2", "0", "0", SP, "o", "k">> \o CRLF \o CRLF

\* An upstream that sends back the text of a request: the marker and a target.
RESP_ECHO == REQ_AD

\* What recv can return, by direction.
ChunksOf(direction) ==
    IF direction = "Request" THEN {REQ_A, REQ_AD, REQ_SHORT, RAW} ELSE {RESP_OK, RESP_ECHO}

\* --block-url and --inject-header (lines 95-96); <<>> is None.
BlockUrls == {<<>>, <<"/", "a", "d">>}
InjectHeaders == {<<>>, <<"X", ":", "1">>}

(***************************************************************************)
(* State                                                                   *)
(***************************************************************************)
VARIABLES
    block_url,          \* args.block_url
    inject_header,      \* args.inject_header
    shutting_down,      \* the global of line 35
    url_counter,        \* the global of line 36
    url_counter_lock,   \* the global of line 37: 0 when free, else its holder
    mainPc,             \* where the main thread is in the accept loop
    client_socket,      \* the session accept returned that has no thread yet; 0 if none
    sigStack,           \* the handle_exit invocations in progress, innermost last
    top_urls,           \* the snapshot of line 61; empty until it is taken
    report,             \* what was written to logs/top_urls.log, in order
    joins,              \* how many times lines 76-78 have completed
    exits,              \* how many times sys.exit(0) has been called
    sess,               \* per session: the state of handle_client and its sockets
    fwd,                \* per session and direction: the state of forward_data
    readLog,            \* per session and direction: the chunks recv returned
    sentLog,            \* per session and direction: what sendall delivered
    connsLeft,          \* the connections the clients will still make
    chunksLeft,         \* the chunks the peers will still send
    signalsLeft,        \* the termination signals still to be delivered
    senders,            \* the directions in which the peers send chunks at all
    faults,             \* whether operations on a connected socket can fail
    probe               \* one chunk and what the inspection makes of it

vars == <<block_url, inject_header, shutting_down, url_counter, url_counter_lock,
          mainPc, client_socket, sigStack, top_urls, report, joins, exits,
          sess, fwd, readLog, sentLog, connsLeft, chunksLeft, signalsLeft, senders,
          faults, probe>>

\* What no step of the proxy changes.
config == <<block_url, inject_header, probe>>
mainVars == <<mainPc, client_socket>>
exitVars == <<sigStack, top_urls, report, joins, exits>>
logs == <<readLog, sentLog>>
env == <<connsLeft, chunksLeft, signalsLeft, senders, faults>>

Sockets == {"client", "server"}

\* forward_data, lines 223-228: the socket a direction reads and the one it writes.
Src(direction) == IF direction = "Request" THEN "client" ELSE "server"
Dest(direction) == IF direction = "Request" THEN "server" ELSE "client"

\* The state of one session: where handle_client is (pc), how connect ended
\* (conn), the sockets, the number of close() calls on each (closes), whether a
\* timeout is set on each (tmo), socket_closed_flags (flags), and the responses
\* the proxy itself wrote to the client socket, with whether sendall returned
\* (replies).
NewSession ==
    [pc     |-> "unborn",
     conn   |-> "none",
     sock   |-> [client |-> "none", server |-> "none"],
     closes |-> [client |-> 0, server |-> 0],
     tmo    |-> [client |-> FALSE, server |-> FALSE],
     flags  |-> [client |-> FALSE, server |-> FALSE],
     replies |-> <<>>]

\* The locals of forward_data: data, url and the count read under the lock are
\* dead outside the iteration that set them and are kept at their defaults
\* there. n is the position in readLog of the chunk in data. blocked and ebadf
\* record that the forwarder has applied the block policy, or has used a
\* closed socket.
NewForwarder ==
    [pc |-> "unstarted", data |-> <<>>, n |-> 0, url |-> <<>>, tmp |-> 0,
     blocked |-> FALSE, ebadf |-> FALSE]

\* The forwarder at pc, its iteration over.
Idle(f, pc) == [f EXCEPT !.pc = pc, !.data = <<>>, !.n = 0, !.url = <<>>, !.tmp = 0]

\* The state when main enters the accept loop, for an environment that makes
\* conns connections, sends chunks chunks in the directions dirs and delivers
\* signals termination signals; with failing, operations on connected sockets
\* can fail.
Proxy(conns, chunks, signals, dirs, failing) ==
    /\ shutting_down = FALSE
    /\ url_counter = <<>>
    /\ url_counter_lock = 0
    /\ mainPc = "accept"
    /\ client_socket = 0
    /\ sigStack = <<>>
    /\ top_urls = <<>>
    /\ report = <<>>
    /\ joins = 0
    /\ exits = 0
    /\ sess = [s \in Sessions |-> NewSession]
    /\ fwd = [s \in Sessions |-> [d \in Directions |-> NewForwarder]]
    /\ readLog = [s \in Sessions |-> [d \in Directions |-> <<>>]]
    /\ sentLog = [s \in Sessions |-> [d \in Directions |-> <<>>]]
    /\ connsLeft = conns
    /\ chunksLeft = chunks
    /\ signalsLeft = signals
    /\ senders = dirs
    /\ faults = failing

NoProbe ==
    [direction |-> "Request", data |-> <<>>, applied |-> FALSE,
     result |-> Inspect("Response", <<>>, <<>>, <<>>)]

InitWith(conns, chunks, signals, dirs, failing) ==
    /\ block_url \in BlockUrls
    /\ inject_header \in InjectHeaders
    /\ probe = NoProbe
    /\ Proxy(conns, chunks, signals, dirs, failing)

(***************************************************************************)
(* main: the accept loop (lines 134-145). The main thread runs the loop    *)
(* only while no signal handler is running on its stack.                   *)
(***************************************************************************)
MainRuns == sigStack = <<>> /\ exits = 0

\* Line 136: accept returns the next connection.
Accept ==
    /\ MainRuns
    /\ mainPc = "accept"
    /\ ~shutting_down
    /\ connsLeft > 0
    /\ \E s \in Sessions :
        /\ sess[s].pc = "unborn"
        /\ \A t \in Sessions : t < s => sess[t].pc # "unborn"
        /\ sess' = [sess EXCEPT ![s].pc = "accepted", ![s].sock.client = "open"]
        /\ client_socket' = s
    /\ mainPc' = "start"
    /\ connsLeft' = connsLeft - 1
    /\ UNCHANGED <<config, shutting_down, url_counter, url_counter_lock, exitVars,
                   fwd, logs, chunksLeft, signalsLeft, senders, faults>>

\* Lines 143-145: accept raises; the loop is left by break.
AcceptFails ==
    /\ MainRuns
    /\ mainPc = "accept"
    /\ ~shutting_down
    /\ mainPc' = "stopped"
    /\ UNCHANGED <<config, shutting_down, url_counter, url_counter_lock, client_socket,
                   exitVars, sess, fwd, logs, env>>

\* Lines 138-142: the session's thread is created and started.
StartHandler ==
    /\ MainRuns
    /\ mainPc = "start"
    /\ sess' = [sess EXCEPT ![client_socket].pc = "connect"]
    /\ client_socket' = 0
    /\ mainPc' = "accept"
    /\ UNCHANGED <<config, shutting_down, url_counter, url_counter_lock, exitVars,
                   fwd, logs, env>>

(***************************************************************************)
(* handle_exit (lines 40-82). A signal handler runs on the main thread,    *)
(* between two of its instructions; a further signal nests a further       *)
(* invocation on top of the one in progress.                               *)
(***************************************************************************)
SessionLive(s) == sess[s].pc \notin {"unborn", "accepted", "done"}

ForwarderLive(s, d) == fwd[s][d].pc \notin {"unstarted", "done"}

\* The threads threading.enumerate() lists besides the main thread.
ThreadsLive == \E s \in Sessions : SessionLive(s) \/ \E d \in Directions : ForwarderLive(s, d)

\* The process lives while the main thread is in main or a thread is alive.
ProcessLive == exits = 0 /\ (mainPc # "stopped" \/ ThreadsLive)

Top == sigStack[Len(sigStack)]
SetTop(pc) == [sigStack EXCEPT ![Len(sigStack)] = pc]
Pop == SubSeq(sigStack, 1, Len(sigStack) - 1)

\* SIGINT or SIGTERM is delivered (lines 130, 132).
Signal ==
    /\ ProcessLive
    /\ signalsLeft > 0
    /\ sigStack' = Append(sigStack, "check")
    /\ signalsLeft' = signalsLeft - 1
    /\ UNCHANGED <<config, shutting_down, url_counter, url_counter_lock, mainVars,
                   top_urls, report, joins, exits, sess, fwd, logs, connsLeft,
                   chunksLeft, senders, faults>>

\* handle_exit without its duplicate check.
AlreadyShuttingDown_Unchecked == FALSE

\* Line 48: if shutting_down.
AlreadyShuttingDown == shutting_down

\* Lines 48-49: the duplicate check.
ExitCheck ==
    /\ sigStack # <<>> /\ Top = "check"
    /\ sigStack' = IF AlreadyShuttingDown THEN Pop ELSE SetTop("set")
    /\ UNCHANGED <<config, shutting_down, url_counter, url_counter_lock, mainVars,
                   top_urls, report, joins, exits, sess, fwd, logs, env>>

\* Line 51: shutting_down = True.
ExitSetFlag ==
    /\ sigStack # <<>> /\ Top = "set"
    /\ shutting_down' = TRUE
    /\ sigStack' = SetTop("report")
    /\ UNCHANGED <<config, url_counter, url_counter_lock, mainVars,
                   top_urls, report, joins, exits, sess, fwd, logs, env>>

\* Lines 55-73: under the lock, the top URLs are taken, logged and, when there
\* is any, written to logs/top_urls.log.
ExitReport ==
    /\ sigStack # <<>> /\ Top = "report"
    /\ url_counter_lock = 0
    /\ top_urls' = IF Len(url_counter) = 0 THEN top_urls ELSE MostCommon(url_counter, TOP_N)
    /\ report' = IF Len(url_counter) = 0 THEN report ELSE Append(report, top_urls')
    /\ sigStack' = SetTop("join")
    /\ UNCHANGED <<config, shutting_down, url_counter, url_counter_lock, mainVars,
                   joins, exits, sess, fwd, logs, env>>

\* Lines 76-82: every thread but the main one is joined; then sys.exit(0)
\* raises SystemExit through every frame of the main thread.
ExitJoin ==
    /\ sigStack # <<>> /\ Top = "join"
    /\ ~ThreadsLive
    /\ joins' = joins + 1
    /\ exits' = exits + 1
    /\ sigStack' = <<>>
    /\ mainPc' = "exited"
    /\ UNCHANGED <<config, shutting_down, url_counter, url_counter_lock, client_socket,
                   top_urls, report, sess, fwd, logs, env>>

(***************************************************************************)
(* handle_client (lines 148-214)                                           *)
(***************************************************************************)
\* Threads run only while the process does.
Running == exits = 0

\* What lines 156-158 can end in: connected; socket.gaierror; another
\* exception of connect (refused, timed out, unreachable); socket() itself
\* raising, which leaves server_socket None.
ConnectOutcomes == {"ok", "gaierror", "refused", "nosocket"}

\* A connect whose failure is taken as fatal for the whole proxy.
Connect_FailureStopsProxy(s) ==
    /\ Running
    /\ sess[s].pc = "connect"
    /\ \E r \in ConnectOutcomes :
        /\ sess' = [sess EXCEPT
                       ![s].conn = r,
                       ![s].sock.server = IF r = "nosocket" THEN "none" ELSE "open",
                       ![s].pc = CASE r = "ok" -> "spawn"
                                   [] r = "gaierror" -> "send502"
                                   [] OTHER -> "finally"]
        /\ shutting_down' = (shutting_down \/ r # "ok")
    /\ UNCHANGED <<config, url_counter, url_counter_lock, mainVars,
                   exitVars, fwd, logs, env>>

\* Lines 156-160 and 189: the upstream socket is created and connected.
Connect(s) ==
    /\ Running
    /\ sess[s].pc = "connect"
    /\ \E r \in ConnectOutcomes :
        sess' = [sess EXCEPT
                    ![s].conn = r,
                    ![s].sock.server = IF r = "nosocket" THEN "none" ELSE "open",
                    ![s].pc = CASE r = "ok" -> "spawn"
                                [] r = "gaierror" -> "send502"
                                [] OTHER -> "finally"]
    /\ UNCHANGED <<config, shutting_down, url_counter, url_counter_lock, mainVars,
                   exitVars, fwd, logs, env>>

\* Lines 161-167: the 502 response, its Content-Length written out.
BODY_502 ==
    "The proxy could not resolve or connect to the target server. Please check the server address.\r\n"
CONTENT_LENGTH_502 == 77

\* Lines 269-276: the 403 response, its Content-Length computed from the body.
BODY_403 ==
    "This request was blocked by the proxy. Access to this URL is restricted.\r\n"

\* The response sent with a status: the Content-Length it declares and the
\* body after the blank line.
Response(status) ==
    IF status = "502"
    THEN [status |-> "502", length |-> CONTENT_LENGTH_502, body |-> BODY_502]
    ELSE [status |-> "403", length |-> Len(BODY_403), body |-> BODY_403]

\* Lines 161-171: the 502 response is sent, the client socket closed and its
\* flag set; when sendall raises, line 189 catches it and neither happens.
Send502(s) ==
    /\ Running
    /\ sess[s].pc = "send502"
    /\ \/ sess' = [sess EXCEPT ![s].replies = Append(@, [status |-> "502", sent |-> TRUE]),
                               ![s].sock.client = "closed",
                               ![s].closes.client = @ + 1,
                               ![s].flags.client = TRUE,
                               ![s].pc = "finally"]
       \/ /\ faults
          /\ sess' = [sess EXCEPT ![s].replies = Append(@, [status |-> "502", sent |-> FALSE]),
                                  ![s].pc = "finally"]
    /\ UNCHANGED <<config, shutting_down, url_counter, url_counter_lock, mainVars,
                   exitVars, fwd, logs, env>>

\* Lines 173-184: both forwarder threads are created and started.
StartForwarders(s) ==
    /\ Running
    /\ sess[s].pc = "spawn"
    /\ fwd' = [fwd EXCEPT ![s] = [d \in Directions |-> [NewForwarder EXCEPT !.pc = "entry"]]]
    /\ sess' = [sess EXCEPT ![s].pc = "join"]
    /\ UNCHANGED <<config, shutting_down, url_counter, url_counter_lock, mainVars,
                   exitVars, logs, env>>

\* A join of client_to_server alone.
JoinForwarders_RequestOnly(s) ==
    /\ Running
    /\ sess[s].pc = "join"
    /\ fwd[s]["Request"].pc = "done"
    /\ sess' = [sess EXCEPT ![s].pc = "finally"]
    /\ UNCHANGED <<config, shutting_down, url_counter, url_counter_lock, mainVars,
                   exitVars, fwd, logs, env>>

\* Lines 186-187: both forwarder threads are joined.
JoinForwarders(s) ==
    /\ Running
    /\ sess[s].pc = "join"
    /\ \A d \in Directions : fwd[s][d].pc = "done"
    /\ sess' = [sess EXCEPT ![s].pc = "finally"]
    /\ UNCHANGED <<config, shutting_down, url_counter, url_counter_lock, mainVars,
                   exitVars, fwd, logs, env>>

\* Whether shutdown(SHUT_RDWR) can succeed on a socket: a socket that was
\* never connected raises ENOTCONN.
CanShutdown(s, k) == k = "client" \/ sess[s].conn = "ok"

\* Whether it can raise: on a connected socket, when the peer is gone.
CanFailShutdown(s, k) == faults \/ ~CanShutdown(s, k)

\* Lines 193-201 and 204-212 for socket k, once its guard holds: shutdown then
\* close; when shutdown raises OSError, close is skipped. The flag is set
\* either way.
Release(ss, k, shutdownOk) ==
    IF shutdownOk
    THEN [ss EXCEPT !.sock[k] = "closed", !.closes[k] = @ + 1, !.flags[k] = TRUE]
    ELSE [ss EXCEPT !.flags[k] = TRUE]

\* Lines 192-201: the client socket's part of the finally block.
CleanupClient(ss, ok) ==
    IF ss.flags.client THEN ss ELSE Release(ss, "client", ok)

\* Lines 203-212: the upstream socket's part of the finally block.
CleanupServer(ss, ok) ==
    IF ss.sock.server = "none" \/ ss.flags.server THEN ss ELSE Release(ss, "server", ok)

\* Lines 191-214: the finally block; okC and okS say whether the shutdown of
\* the client socket and of the upstream socket succeed, where they are called.
Cleanup(s) ==
    /\ Running
    /\ sess[s].pc = "finally"
    /\ \E okC, okS \in BOOLEAN :
        /\ IF sess[s].flags.client
           THEN okC
           ELSE (okC => CanShutdown(s, "client")) /\ (~okC => CanFailShutdown(s, "client"))
        /\ IF sess[s].sock.server = "none" \/ sess[s].flags.server
           THEN okS
           ELSE (okS => CanShutdown(s, "server")) /\ (~okS => CanFailShutdown(s, "server"))
        /\ sess' = [sess EXCEPT ![s] =
                      [CleanupServer(CleanupClient(@, okC), okS) EXCEPT !.pc = "done"]]
    /\ UNCHANGED <<config, shutting_down, url_counter, url_counter_lock, mainVars,
                   exitVars, fwd, logs, env>>

(***************************************************************************)
(* forward_data (lines 217-320)                                            *)
(***************************************************************************)
Flagged(s, d) == sess[s].flags[Src(d)] \/ sess[s].flags[Dest(d)]

\* An entry that closes src itself when it cannot set the timeout on it.
ForwardEntry_ClosesSrc(s, d) ==
    /\ Running
    /\ fwd[s][d].pc = "entry"
    /\ IF Flagged(s, d) \/ sess[s].sock[Src(d)] = "closed"
       THEN /\ fwd' = [fwd EXCEPT ![s][d].pc = "done"]
            /\ sess' = [sess EXCEPT ![s].sock[Src(d)] = "closed",
                                    ![s].closes[Src(d)] = @ + 1,
                                    ![s].flags[Src(d)] = TRUE]
       ELSE /\ fwd' = [fwd EXCEPT ![s][d].pc = "loop"]
            /\ sess' = [sess EXCEPT ![s].tmo[Src(d)] = TRUE]
    /\ UNCHANGED <<config, shutting_down, url_counter, url_counter_lock, mainVars,
                   exitVars, logs, env>>

\* Lines 231-243: the flags are checked and the read timeout is set on src;
\* settimeout on a closed socket raises EBADF and the forwarder returns.
ForwardEntry(s, d) ==
    /\ Running
    /\ fwd[s][d].pc = "entry"
    /\ IF Flagged(s, d) \/ sess[s].sock[Src(d)] = "closed"
       THEN /\ fwd' = [fwd EXCEPT ![s][d].pc = "done"]
            /\ UNCHANGED sess
       ELSE /\ fwd' = [fwd EXCEPT ![s][d].pc = "loop"]
            /\ sess' = [sess EXCEPT ![s].tmo[Src(d)] = TRUE]
    /\ UNCHANGED <<config, shutting_down, url_counter, url_counter_lock, mainVars,
                   exitVars, logs, env>>

\* A loop that checks the flags and not shutting_down.
LoopEnds_FlagsOnly(s, d) == Flagged(s, d)

\* Lines 245-249: the loop condition and the flags check.
LoopEnds(s, d) == shutting_down \/ Flagged(s, d)

\* Lines 252-260: recv returns a chunk, which is parsed when it is a Request
\* chunk with the marker; a chunk that is not inspected, or whose request
\* line does not parse (ValueError, line 304), goes to sendall as it is.
AfterRecv(f, d, c, n) ==
    IF Inspected(d, c) /\ ParsesOk(c)
    THEN [f EXCEPT !.pc = "count", !.data = c, !.n = n, !.url = UrlOf(c)]
    ELSE [f EXCEPT !.pc = "send", !.data = c, !.n = n]

\* Lines 245-254 and 308-320: one pass through the head of the loop. The loop
\* ends when shutting_down or a flag is set; else recv returns data, returns
\* b"" (the peer closed) or raises, which both end the loop, or times out,
\* which leads back here; on a socket the sibling closed it raises EBADF.
\* The variables read before recv only ever change from false to true, so the
\* check and the recv are one step.
ForwardRecv(s, d) ==
    /\ Running
    /\ fwd[s][d].pc = "loop"
    /\ IF LoopEnds(s, d)
       THEN /\ fwd' = [fwd EXCEPT ![s][d].pc = "done"]
            /\ UNCHANGED <<readLog, env>>
       ELSE IF sess[s].sock[Src(d)] = "closed"
            THEN /\ fwd' = [fwd EXCEPT ![s][d].pc = "done", ![s][d].ebadf = TRUE]
                 /\ UNCHANGED <<readLog, env>>
            ELSE \/ /\ chunksLeft > 0
                    /\ d \in senders
                    /\ \E c \in ChunksOf(d) :
                         /\ readLog' = [readLog EXCEPT ![s][d] = Append(@, c)]
                         /\ fwd' = [fwd EXCEPT ![s][d] =
                                       AfterRecv(@, d, c, Len(readLog[s][d]) + 1)]
                    /\ chunksLeft' = chunksLeft - 1
                    /\ UNCHANGED <<connsLeft, signalsLeft, senders, faults>>
                 \/ /\ fwd' = [fwd EXCEPT ![s][d].pc = "done"]
                    /\ UNCHANGED <<readLog, env>>
    /\ UNCHANGED <<config, shutting_down, url_counter, url_counter_lock, mainVars,
                   exitVars, sess, sentLog>>

\* The increment without the lock.
LockFree_NoLock == TRUE

\* Line 261: with url_counter_lock.
LockFree == url_counter_lock = 0

\* Lines 261-262: the lock is taken and url_counter[url] is read.
ForwardCount(s, d) ==
    /\ Running
    /\ fwd[s][d].pc = "count"
    /\ LockFree
    /\ url_counter_lock' = s
    /\ fwd' = [fwd EXCEPT ![s][d].tmp = CountOf(url_counter, fwd[s][d].url),
                          ![s][d].pc = "store"]
    /\ UNCHANGED <<config, shutting_down, url_counter, mainVars, exitVars, sess, logs, env>>

\* Lines 262-300: the incremented count is stored and the lock released; then
\* the block policy and the inject policy are applied to the chunk.
ForwardStore(s, d) ==
    /\ Running
    /\ fwd[s][d].pc = "store"
    /\ url_counter' = SetCount(url_counter, fwd[s][d].url, fwd[s][d].tmp + 1)
    /\ url_counter_lock' = 0
    /\ fwd' = IF IsBlocked(block_url, fwd[s][d].url)
              THEN [fwd EXCEPT ![s][d] = [Idle(@, "send403") EXCEPT !.blocked = TRUE]]
              ELSE [fwd EXCEPT ![s][d].pc = "send", ![s][d].url = <<>>, ![s][d].tmp = 0,
                               ![s][d].data = Rewrite(@, inject_header)]
    /\ UNCHANGED <<config, shutting_down, mainVars, exitVars, sess, logs, env>>

\* Lines 269-277 and 308-317: the 403 response is sent to src. A timeout of
\* sendall is caught at line 308 and the loop continues; another socket
\* error ends the loop.
ForwardSend403(s, d) ==
    /\ Running
    /\ fwd[s][d].pc = "send403"
    /\ \/ /\ sess' = [sess EXCEPT ![s].replies = Append(@, [status |-> "403", sent |-> TRUE])]
          /\ fwd' = [fwd EXCEPT ![s][d].pc = "close"]
       \/ /\ faults /\ sess[s].tmo[Src(d)]
          /\ sess' = [sess EXCEPT ![s].replies = Append(@, [status |-> "403", sent |-> FALSE])]
          /\ fwd' = [fwd EXCEPT ![s][d].pc = "loop"]
       \/ /\ faults
          /\ sess' = [sess EXCEPT ![s].replies = Append(@, [status |-> "403", sent |-> FALSE])]
          /\ fwd' = [fwd EXCEPT ![s][d].pc = "done"]
    /\ UNCHANGED <<config, shutting_down, url_counter, url_counter_lock, mainVars,
                   exitVars, logs, env>>

\* Lines 279-280: src.close() and dest.close().
ForwardClose(s, d) ==
    /\ Running
    /\ fwd[s][d].pc = "close"
    /\ sess' = [sess EXCEPT ![s].sock = [k \in Sockets |-> "closed"],
                            ![s].closes = [k \in Sockets |-> @[k] + 1]]
    /\ fwd' = [fwd EXCEPT ![s][d].pc = "flag"]
    /\ UNCHANGED <<config, shutting_down, url_counter, url_counter_lock, mainVars,
                   exitVars, logs, env>>

\* Lines 281-283: both flags are set and the forwarder returns.
ForwardSetFlag(s, d) ==
    /\ Running
    /\ fwd[s][d].pc = "flag"
    /\ sess' = [sess EXCEPT ![s].flags = [k \in Sockets |-> TRUE]]
    /\ fwd' = [fwd EXCEPT ![s][d].pc = "done"]
    /\ UNCHANGED <<config, shutting_down, url_counter, url_counter_lock, mainVars,
                   exitVars, logs, env>>

\* Lines 307-320: dest.sendall(data). It delivers the chunk; or times out, when
\* dest has a timeout, which line 308 catches to continue the loop; or raises
\* another socket error, EBADF on a socket the sibling closed, which ends the loop.
ForwardSend(s, d) ==
    /\ Running
    /\ fwd[s][d].pc = "send"
    /\ IF sess[s].sock[Dest(d)] = "closed"
       THEN /\ fwd' = [fwd EXCEPT ![s][d] = [Idle(@, "done") EXCEPT !.ebadf = TRUE]]
            /\ UNCHANGED sentLog
       ELSE \/ /\ sentLog' = [sentLog EXCEPT ![s][d] =
                                Append(@, [n |-> fwd[s][d].n, data |-> fwd[s][d].data])]
               /\ fwd' = [fwd EXCEPT ![s][d] = Idle(@, "loop")]
            \/ /\ faults /\ sess[s].tmo[Dest(d)]
               /\ fwd' = [fwd EXCEPT ![s][d] = Idle(@, "loop")]
               /\ UNCHANGED sentLog
            \/ /\ faults
               /\ fwd' = [fwd EXCEPT ![s][d] = Idle(@, "done")]
               /\ UNCHANGED sentLog
    /\ UNCHANGED <<config, shutting_down, url_counter, url_counter_lock, mainVars,
                   exitVars, sess, readLog, env>>

(***************************************************************************)
(* The specification                                                       *)
(***************************************************************************)
\* The next-state relation: one step of the main thread, of a signal handler,
\* of a session's thread or of a forwarder's thread.
Next ==
    \/ Accept
    \/ AcceptFails
    \/ StartHandler
    \/ Signal
    \/ ExitCheck
    \/ ExitSetFlag
    \/ ExitReport
    \/ ExitJoin
    \/ \E s \in Sessions : Connect(s)
    \/ \E s \in Sessions : Send502(s)
    \/ \E s \in Sessions : StartForwarders(s)
    \/ \E s \in Sessions : JoinForwarders(s)
    \/ \E s \in Sessions : Cleanup(s)
    \/ \E s \in Sessions, d \in Directions : ForwardEntry(s, d)
    \/ \E s \in Sessions, d \in Directions : ForwardRecv(s, d)
    \/ \E s \in Sessions, d \in Directions : ForwardCount(s, d)
    \/ \E s \in Sessions, d \in Directions : ForwardStore(s, d)
    \/ \E s \in Sessions, d \in Directions : ForwardSend403(s, d)
    \/ \E s \in Sessions, d \in Directions : ForwardClose(s, d)
    \/ \E s \in Sessions, d \in Directions : ForwardSetFlag(s, d)
    \/ \E s \in Sessions, d \in Directions : ForwardSend(s, d)

\* One connection, up to MaxChunks chunks, one signal.
Init == InitWith(1, MaxChunks, 1, Directions, TRUE)

Spec == Init /\ [][Next]_vars

\* One connection and one chunk, up to MaxSignals signals.
InitSignals == InitWith(1, 1, MaxSignals, Directions, TRUE)

SpecSignals == InitSignals /\ [][Next]_vars

\* Up to MaxSessions connections, whose clients send up to MaxSessions requests
\* in all over sockets that do not fail once connected, and one signal.
InitSessions == InitWith(MaxSessions, MaxSessions, 1, {"Request"}, FALSE)

SpecSessions == InitSessions /\ [][Next]_vars

(***************************************************************************)
(* Liveness: the steps the scheduler and the timeouts guarantee            *)
(***************************************************************************)
\* A forwarder's steps that do not wait for the peer: every step but a recv
\* that is waiting for data. recv returns within its timeout (line 236), so
\* the head of the loop is reached again and again, and it ends the loop once
\* LoopEnds holds.
ForwardProgress(s, d) ==
    \/ ForwardEntry(s, d)
    \/ LoopEnds(s, d) /\ ForwardRecv(s, d)
    \/ ForwardCount(s, d)
    \/ ForwardStore(s, d)
    \/ ForwardSend403(s, d)
    \/ ForwardClose(s, d)
    \/ ForwardSetFlag(s, d)
    \/ ForwardSend(s, d)

SessionProgress(s) ==
    \/ Connect(s) \/ Send502(s) \/ StartForwarders(s) \/ JoinForwarders(s) \/ Cleanup(s)

ExitProgress == ExitCheck \/ ExitSetFlag \/ ExitReport \/ ExitJoin

Fairness ==
    /\ WF_vars(ExitProgress)
    /\ \A s \in Sessions : WF_vars(SessionProgress(s))
    /\ \A s \in Sessions, d \in Directions : WF_vars(ForwardProgress(s, d))

\* One connection, one chunk in either direction, one signal.
InitLive == InitWith(1, 1, 1, Directions, TRUE)

SpecLive == InitLive /\ [][Next]_vars /\ Fairness

(***************************************************************************)
(* The inspection on its own: one chunk, put through lines 256-305         *)
(***************************************************************************)
\* Request lines: well formed; a target with the block substring; two tokens;
\* four tokens; runs of whitespace; the marker alone; no marker; an invalid
\* byte inside the target.
FirstLines ==
    { <<"G", SP, "/", "a", SP, "H", "T", "T", "P">>,
      <<"G", SP, "/", "a", "d", SP, "H", "T", "T", "P">>,
      <<"G", SP, "H", "T", "T", "P">>,
      <<"G", SP, "/", "a", SP, "H", "T", "T", "P", SP, "x">>,
      <<"G", SP, SP, "/", "a", TAB, "H", "T", "T", "P">>,
      <<"H", "T", "T", "P">>,
      <<"G", SP, "/", "a", SP, "v">>,
      <<"G", SP, "/", BAD, "a", SP, "H", "T", "T", "P">> }

LineEnds == {CRLF, <<LF>>}

\* The lines after the request line: none; one header; a line without ":";
\* two headers; a line that holds the marker.
LaterLines ==
    { <<>>,
      << <<"A", ":", "b">> >>,
      << <<"A", "b">> >>,
      << <<"A", ":", "b">>, <<"C", ":", "d">> >>,
      << <<"H", "T", "T", "P", ":">> >> }

\* How the chunk ends after its last line: at once; with the line's end;
\* with a blank line; with a blank line and a body.
RECURSIVE JoinedBy(_, _)
JoinedBy(lines, e) == IF lines = <<>> THEN <<>> ELSE e \o Head(lines) \o JoinedBy(Tail(lines), e)

Endings(e) == { <<>>, e, e \o e, e \o e \o <<"z">> }

ProbeChunks ==
    { first \o JoinedBy(later, e) \o ending :
        first \in FirstLines, later \in LaterLines,
        e \in LineEnds, ending \in UNION { Endings(x) : x \in LineEnds } }

ProbeBlockUrls == {<<>>, <<"/", "a", "d">>, <<"a">>}

\* "X:1", "X-P: t", " X : 1 " and "X1" (no colon).
ProbeInjectHeaders ==
    { <<>>,
      <<"X", ":", "1">>,
      <<"X", "-", "P", ":", SP, "t">>,
      <<SP, "X", SP, ":", SP, "1", SP>>,
      <<"X", "1">> }

InitText ==
    /\ block_url \in ProbeBlockUrls
    /\ inject_header \in ProbeInjectHeaders
    /\ \E d \in Directions, c \in ProbeChunks :
          probe = [NoProbe EXCEPT !.direction = d, !.data = c]
    /\ Proxy(0, 0, 0, {}, FALSE)

\* forward_data's lines 256-305 on the chunk of the probe.
ApplyInspect ==
    /\ ~probe.applied
    /\ probe' = [probe EXCEPT !.applied = TRUE,
                              !.result = Inspect(probe.direction, probe.data,
                                                 block_url, inject_header)]
    /\ UNCHANGED <<block_url, inject_header, shutting_down, url_counter, url_counter_lock,
                   mainVars, exitVars, sess, fwd, logs, env>>

NextText == ApplyInspect

SpecText == InitText /\ [][NextText]_vars

\* Up to MaxSessions connections, one chunk in either direction, one signal,
\* with failing socket operations.
InitErrors == InitWith(MaxSessions, 1, 1, Directions, TRUE)

SpecErrors == InitErrors /\ [][Next]_vars

(***************************************************************************)
(* handle_exit on its own: a signal arrives when earlier sessions have     *)
(* ended and left their counts in url_counter                              *)
(***************************************************************************)
\* The number of distinct targets counted before the signal.
MaxTargets == 11

\* The k-th target: "/" followed by k times "a".
TargetNo(k) == [i \in 1..(k + 1) |-> IF i = 1 THEN "/" ELSE "a"]

\* Counters of up to MaxTargets targets, in the order of their first count,
\* each counted once or twice.
Counters ==
    UNION { { [i \in 1..n |-> [url |-> TargetNo(i), n |-> c[i]]] : c \in [1..n -> {1, 2}] }
              : n \in 0..MaxTargets }

InitTop ==
    /\ block_url = <<>>
    /\ inject_header = <<>>
    /\ probe = NoProbe
    /\ url_counter \in Counters
    /\ shutting_down = FALSE
    /\ url_counter_lock = 0
    /\ mainPc = "accept"
    /\ client_socket = 0
    /\ sigStack = <<>>
    /\ top_urls = <<>>
    /\ report = <<>>
    /\ joins = 0
    /\ exits = 0
    /\ sess = [s \in Sessions |-> NewSession]
    /\ fwd = [s \in Sessions |-> [d \in Directions |-> NewForwarder]]
    /\ readLog = [s \in Sessions |-> [d \in Directions |-> <<>>]]
    /\ sentLog = [s \in Sessions |-> [d \in Directions |-> <<>>]]
    /\ connsLeft = 0
    /\ chunksLeft = 0
    /\ signalsLeft = 1
    /\ senders = {}
    /\ faults = FALSE

NextTop == Signal \/ ExitCheck \/ ExitSetFlag \/ ExitReport \/ ExitJoin

SpecTop == InitTop /\ [][NextTop]_vars

(***************************************************************************)
(* Claims                                                                  *)
(***************************************************************************)
Started(s) == sess[s].pc \notin {"unborn", "accepted"}

\* C1: when handle_client's cleanup has completed, the client socket and, if
\* it was created, the upstream socket have each been closed exactly once,
\* on every termination path, also when shutdown fails in the cleanup.
C1_ClosedExactlyOnce ==
    \A s \in Sessions :
        sess[s].pc = "done" =>
            /\ sess[s].closes.client = 1
            /\ sess[s].sock.server # "none" => sess[s].closes.server = 1

\* Whether the block policy stops chunk c of direction d.
BlockedChunk(d, c) ==
    /\ d = "Request"
    /\ Contains(c, HTTP_MARKER)
    /\ Len(Split(SplitLines(Decode(c))[1])) = 3
    /\ block_url # <<>>
    /\ Contains(Split(SplitLines(Decode(c))[1])[2], block_url)

\* The positions in log of the chunks the block policy lets through, from i on.
RECURSIVE PassedFrom(_, _, _)
PassedFrom(d, log, i) ==
    IF i > Len(log) THEN <<>>
    ELSE (IF BlockedChunk(d, log[i]) THEN <<>> ELSE <<i>>) \o PassedFrom(d, log, i + 1)

\* C2: with no inject header, in each direction the chunks delivered are at
\* every moment a prefix of the chunks read, blocked chunks aside: a chunk that
\* was read and not sent is never followed by a later chunk being sent.
C2_DeliveredIsPrefixOfRead ==
    inject_header = <<>> =>
        \A s \in Sessions, d \in Directions :
            LET passed == PassedFrom(d, readLog[s][d], 1)
                sent == sentLog[s][d]
            IN /\ Len(sent) <= Len(passed)
               /\ \A i \in 1..Len(sent) :
                    /\ sent[i].n = passed[i]
                    /\ sent[i].data = readLog[s][d][passed[i]]

\* C3: whenever opening the upstream connection fails, by name resolution or
\* by the connect being refused, a 502 response is passed to the client
\* socket, the client side is marked closed and no forwarder is ever started.
C3_ConnectFailureAnswered502 ==
    \A s \in Sessions :
        (sess[s].pc = "done" /\ sess[s].conn \in {"gaierror", "refused"}) =>
            /\ \E i \in 1..Len(sess[s].replies) : sess[s].replies[i].status = "502"
            /\ sess[s].flags.client
            /\ \A d \in Directions : fwd[s][d].pc = "unstarted"

\* C4: once a Request chunk's target holds the block substring, the Request
\* forwarder goes on to send the 403, close both sockets, set both flags and
\* terminate, and the chunk is never written to the upstream; it never returns
\* to its loop.
C4_BlockTerminatesForwarder ==
    \A s \in Sessions :
        fwd[s]["Request"].blocked =>
            /\ fwd[s]["Request"].pc \in {"send403", "close", "flag", "done"}
            /\ \A i \in 1..Len(sentLog[s]["Request"]) :
                  ~BlockedChunk("Request", readLog[s]["Request"][sentLog[s]["Request"][i].n])
            /\ (fwd[s]["Request"].pc = "done"
                  /\ \E i \in 1..Len(sess[s].replies) :
                        sess[s].replies[i] = [status |-> "403", sent |-> TRUE])
               => /\ \A k \in Sockets : sess[s].sock[k] = "closed" /\ sess[s].flags[k]

\* C6: the report is emitted after every session task has finished, so every
\* increment of the counter is in the snapshot that was emitted: when the
\* process has exited, the last report written is the top of the counter.
C6_ReportHoldsEveryIncrement ==
    exits = 1 =>
        IF url_counter = <<>>
        THEN report = <<>>
        ELSE report # <<>> /\ report[Len(report)] = MostCommon(url_counter, TOP_N)

\* A chunk with the marker whose first line splits into three tokens, and
\* the second of them.
ParsedChunk(c) == Contains(c, HTTP_MARKER) /\ Len(Split(SplitLines(Decode(c))[1])) = 3
TargetOf(c) == Split(SplitLines(Decode(c))[1])[2]

\* The target of every Request chunk that parses.
ParsedTargets == [c \in { x \in ChunksOf("Request") : ParsedChunk(x) } |-> TargetOf(c)]

\* The parsed Request chunks read so far with target url, and those among
\* them whose increment is still to come.
ParsedReads(url) ==
    { <<s, i>> \in Sessions \X (1..MaxChunks + MaxSessions) :
        /\ i <= Len(readLog[s]["Request"])
        /\ readLog[s]["Request"][i] \in DOMAIN ParsedTargets
        /\ ParsedTargets[readLog[s]["Request"][i]] = url }

PendingCounts(url) ==
    { s \in Sessions : fwd[s]["Request"].pc \in {"count", "store"}
                         /\ fwd[s]["Request"].url = url }

KnownTargets ==
    { url_counter[i].url : i \in 1..Len(url_counter) }
        \cup { ParsedTargets[c] : c \in DOMAIN ParsedTargets }

C5_CountsMatchReads ==
    /\ \A url \in KnownTargets :
          CountOf(url_counter, url) = Cardinality(ParsedReads(url)) - Cardinality(PendingCounts(url))
    /\ \A i, j \in 1..Len(url_counter) : url_counter[i].url = url_counter[j].url => i = j
    /\ SumCounts(url_counter) =
          Cardinality({ <<s, i>> \in Sessions \X (1..MaxChunks + MaxSessions) :
                          /\ i <= Len(readLog[s]["Request"])
                          /\ readLog[s]["Request"][i] \in DOMAIN ParsedTargets })
            - Cardinality({ s \in Sessions : fwd[s]["Request"].pc \in {"count", "store"} })

C5_OneIncrementAtATime ==
    url_counter' # url_counter =>
        \E u \in KnownTargets' :
            /\ CountOf(url_counter', u) = CountOf(url_counter, u) + 1
            /\ \A v \in KnownTargets' \ {u} : CountOf(url_counter', v) = CountOf(url_counter, v)

\* C5: under any interleaving of sessions, each parsed Request chunk raises
\* the count of its exact target by one and changes no other entry; no count
\* decreases and no increment is lost: the counts are the numbers of parsed
\* chunks read, less the increments still in progress.
C5_CounterExact == []C5_CountsMatchReads /\ [][C5_OneIncrementAtATime]_vars

\* Two sessions at the increment of the same target at once: one holds the
\* lock, the other waits for it.
C5_Witness ==
    \E s, t \in Sessions :
        /\ s # t
        /\ fwd[s]["Request"].pc = "store"
        /\ fwd[t]["Request"].pc = "count"
        /\ fwd[s]["Request"].url = fwd[t]["Request"].url

C7_AtMostOnce == Len(report) <= 1 /\ joins <= 1 /\ exits <= 1

\* A step of an invocation that finds shutting_down set at line 48: it
\* returns, and changes nothing else.
C7_DuplicateReturns ==
    (/\ sigStack # <<>>
     /\ Top = "check"
     /\ shutting_down
     /\ sigStack' # sigStack
     /\ Len(sigStack') <= Len(sigStack))
    => /\ sigStack' = Pop
       /\ UNCHANGED <<shutting_down, url_counter, url_counter_lock, mainVars, top_urls,
                      report, joins, exits, sess, fwd, logs>>

\* C7: an invocation of handle_exit after the first has set shutting_down is
\* a no-op; the report is written, the threads are joined and the process is
\* exited at most once.
C7_SecondExitIsNoOp == []C7_AtMostOnce /\ [][C7_DuplicateReturns]_vars

\* The second invocation is at line 48 while the first, its report written,
\* waits in join.
C7_Witness == sigStack = <<"join", "check">> /\ Len(report) = 1

\* C8: once shutting_down is true, every forwarder and every session manager
\* eventually finishes and the join of handle_exit returns.
C8_ShutdownDrains ==
    /\ shutting_down ~> ~ThreadsLive
    /\ shutting_down ~> exits = 1

\* The process has exited after a session with both forwarders running had
\* read a chunk.
C8_Witness ==
    /\ exits = 1
    /\ \E s \in Sessions :
          /\ sess[s].conn = "ok"
          /\ sess[s].pc = "done"
          /\ \E d \in Directions : readLog[s][d] # <<>>

\* A chunk with the marker whose first line does not split into three tokens.
MalformedChunk(c) == Contains(c, HTTP_MARKER) /\ Len(Split(SplitLines(Decode(c))[1])) # 3

C9_MalformedUntouched ==
    \A s \in Sessions :
        LET f == fwd[s]["Request"]
            log == readLog[s]["Request"]
            sent == sentLog[s]["Request"]
        IN /\ f.pc \in {"count", "store"} => ~MalformedChunk(log[f.n])
           /\ (f.pc = "send" /\ MalformedChunk(log[f.n])) => f.data = log[f.n]
           /\ \A i \in 1..Len(sent) :
                 MalformedChunk(log[sent[i].n]) => sent[i].data = log[sent[i].n]

C9_MalformedGoesToSend ==
    \A s \in Sessions :
        LET log == readLog[s]["Request"]
            log2 == readLog'[s]["Request"]
        IN (Len(log2) = Len(log) + 1 /\ MalformedChunk(log2[Len(log2)])) =>
              /\ url_counter' = url_counter
              /\ fwd'[s]["Request"].pc = "send"

\* C9: a Request chunk with the marker whose first line does not split into
\* three tokens goes to the write step as it was read, is written unmodified,
\* is never counted and does not end the forwarder, whatever the policies.
C9_MalformedForwardedAsRead == []C9_MalformedUntouched /\ [][C9_MalformedGoesToSend]_vars

\* With block and inject both configured, a malformed chunk has been written
\* to the upstream and the forwarder is back in its loop.
C9_Witness ==
    /\ block_url # <<>> /\ inject_header # <<>>
    /\ \E s \in Sessions :
          /\ fwd[s]["Request"].pc = "loop"
          /\ \E i \in 1..Len(sentLog[s]["Request"]) :
                MalformedChunk(readLog[s]["Request"][sentLog[s]["Request"][i].n])

\* The position of the last byte of the first line's terminator; 0 if none.
FirstLineEnd(c) ==
    IF \E i \in 1..Len(c) : c[i] \in {CR, LF}
    THEN LET i == CHOOSE i \in 1..Len(c) :
                     c[i] \in {CR, LF} /\ \A j \in 1..(i - 1) : c[j] \notin {CR, LF}
         IN IF c[i] = CR /\ i < Len(c) /\ c[i + 1] = LF THEN i + 1 ELSE i
    ELSE 0

\* C10: with an inject header, a parsed Request chunk that has a header line
\* after the request line is written as the request line, the injected header
\* line and then the rest of the chunk as it was read, terminator included.
C10_InjectKeepsTheRest ==
    LET c == probe.data
        e == FirstLineEnd(c)
    IN (/\ probe.applied
        /\ probe.direction = "Request"
        /\ inject_header # <<>> /\ FirstColon(inject_header) # 0
        /\ ParsedChunk(c)
        /\ ~(block_url # <<>> /\ Contains(TargetOf(c), block_url))
        /\ Len(SplitLines(Decode(c))) > 1
        /\ Contains(SplitLines(Decode(c))[2], <<":">>))
       => probe.result.out =
             SubSeq(c, 1, e) \o Strip(HeaderLine(inject_header)) \o CRLF \o SubSeq(c, e + 1, Len(c))

\* The place of a target in the counter: the order of first counts.
PlaceOf(counter, url) == CHOOSE i \in 1..Len(counter) : counter[i].url = url

\* a goes before b in the report: a higher count, or the same count and
\* counted first.
GoesBefore(counter, a, b) ==
    \/ a.n > b.n
    \/ a.n = b.n /\ PlaceOf(counter, a.url) < PlaceOf(counter, b.url)

C11_SnapshotOf(counter, snap) ==
    /\ Len(snap) = IF Len(counter) < 10 THEN Len(counter) ELSE 10
    /\ \A i \in 1..Len(snap) :
          /\ \E k \in 1..Len(counter) : counter[k] = snap[i]
          /\ snap[i].n = CountOf(counter, snap[i].url)
    /\ \A i, j \in 1..Len(snap) : i < j => GoesBefore(counter, snap[i], snap[j])
    /\ \A k \in 1..Len(counter) :
          (\A i \in 1..Len(snap) : snap[i] # counter[k]) =>
              \A i \in 1..Len(snap) : GoesBefore(counter, snap[i], counter[k])

\* C11: the snapshot handle_exit emits holds min(10, number of targets)
\* entries of the counter as it is under the lock at that moment, the highest
\* counts first and equal counts in the order of their first count.
C11_SnapshotIsTopTen ==
    [][report' # report =>
          /\ report' = Append(report, top_urls')
          /\ C11_SnapshotOf(url_counter, top_urls')]_vars

\* A report of ten entries out of more than ten targets, with a tie and a
\* step down in it, that is not the first ten in insertion order.
C11_Witness ==
    /\ Len(report) = 1
    /\ Len(url_counter) > 10
    /\ Len(report[1]) = 10
    /\ \E i \in 1..9 : report[1][i].n = report[1][i + 1].n
    /\ \E i \in 1..9 : report[1][i].n > report[1][i + 1].n
    /\ report[1] # SubSeq(url_counter, 1, 10)

\* C12: every synthesized response that is sent, the 502 and the 403,
\* declares a Content-Length equal to the length of its body.
C12_ContentLengthIsBodyLength ==
    \A s \in Sessions :
        \A i \in 1..Len(sess[s].replies) :
            sess[s].replies[i].sent =>
                Response(sess[s].replies[i].status).length
                    = Len(Response(sess[s].replies[i].status).body)

\* A step of the running session s.
StepOf(s) == Started(s) /\ (sess'[s] # sess[s] \/ fwd'[s] # fwd[s])

C13_StepIsLocal ==
    \A s \in Sessions :
        StepOf(s) =>
            /\ \A t \in Sessions \ {s} : sess'[t] = sess[t] /\ fwd'[t] = fwd[t]
            /\ UNCHANGED <<mainVars, shutting_down>>

C13_ListenerAccepts ==
    (/\ MainRuns /\ mainPc = "accept" /\ ~shutting_down
     /\ connsLeft > 0 /\ \E s \in Sessions : sess[s].pc = "unborn")
    => ENABLED Accept

\* C13: a step of one session, its errors included (a failed connect, a
\* socket error in a forwarder, an exception in the manager), changes neither
\* the sockets, flags and forwarders of another session nor the accept loop
\* nor shutting_down, and the accept loop can accept whatever the sessions
\* have come to.
C13_SessionErrorsStayLocal == []C13_ListenerAccepts /\ [][C13_StepIsLocal]_vars

\* One session has ended on a failed connect while another is forwarding and
\* the accept loop is at accept.
C13_Witness ==
    \E s, t \in Sessions :
        /\ s # t
        /\ sess[s].conn \in {"refused", "gaierror", "nosocket"} /\ sess[s].pc = "done"
        /\ sess[t].conn = "ok" /\ sess[t].pc = "join"
        /\ \A d \in Directions : fwd[t][d].pc = "loop"
        /\ mainPc = "accept" /\ ~shutting_down

\* C14: no forwarder calls recv or sendall on a socket that its sibling has
\* closed through the block policy.
C14_NoUseOfSocketSiblingClosed ==
    \A s \in Sessions : \A d \in Directions : ~fwd[s][d].ebadf

\* C15: shutting_down is true once a termination signal has been handled
\* (handle_exit is past line 51) and once the accept loop has failed.
C15_FlagSetBySignalAndAcceptFailure ==
    /\ \A i \in 1..Len(sigStack) : sigStack[i] \in {"report", "join"} => shutting_down
    /\ exits = 1 => shutting_down
    /\ mainPc = "stopped" => shutting_down

\* shutting_down is never reset.
FlagNeverReset == [][shutting_down => shutting_down']_vars

\* C16: with an inject header, a parsed Request chunk that has no header
\* line after the request line is written to the upstream as it was read.
C16_NoHeadersNoChange ==
    LET c == probe.data
    IN (/\ probe.applied
        /\ probe.direction = "Request"
        /\ inject_header # <<>>
        /\ ParsedChunk(c)
        /\ ~(block_url # <<>> /\ Contains(TargetOf(c), block_url))
        /\ ~(/\ Len(SplitLines(Decode(c))) > 1
             /\ Contains(SplitLines(Decode(c))[2], <<":">>)))
       => probe.result.out = c

\* C17: every connection accept has returned is handed to a session manager:
\* the process never ends with an accepted client socket that no
\* handle_client thread was started for.
C17_AcceptedIsHandedOver ==
    exits = 1 => \A s \in Sessions : sess[s].pc # "accepted"

\* Both forwarders of s have returned.
ForwardersOver(s) == \A d \in Directions : fwd[s][d].pc = "done"

C18_CleanupAfterForwarders ==
    \A s \in Sessions :
        (sess[s].conn = "ok" /\ sess[s].pc \in {"finally", "done"}) => ForwardersOver(s)

\* A step of the cleanup of a connected session finds both forwarders over;
\* once the session has ended, its sockets are not touched again.
C18_CleanupStep ==
    \A s \in Sessions :
        /\ (sess[s].conn = "ok" /\ sess[s].pc = "finally" /\ sess'[s] # sess[s])
              => ForwardersOver(s) /\ fwd'[s] = fwd[s] /\ sess'[s].pc = "done"
        /\ (sess[s].conn = "ok" /\ sess[s].pc = "done") => sess'[s] = sess[s]

SocketState(s) == <<sess[s].sock, sess[s].closes, sess[s].flags>>

\* A step of a forwarder of s that closes a socket or sets a flag is a step of
\* the Request forwarder in lines 279-282, and the chunk it has read last is
\* one the block policy stops.
C19_ForwarderStep ==
    \A s \in Sessions :
        (fwd'[s] # fwd[s] /\ SocketState(s)' # SocketState(s)) =>
            /\ fwd'[s]["Response"] = fwd[s]["Response"]
            /\ fwd[s]["Request"].pc \in {"close", "flag"}
            /\ readLog[s]["Request"] # <<>>
            /\ BlockedChunk("Request", readLog[s]["Request"][Len(readLog[s]["Request"])])

C19_EndedUnblockedLeavesSockets ==
    \A s \in Sessions :
        (/\ sess[s].pc = "join"
         /\ \A i \in 1..Len(readLog[s]["Request"]) :
               ~BlockedChunk("Request", readLog[s]["Request"][i]))
        => /\ \A k \in Sockets : sess[s].sock[k] = "open" /\ sess[s].closes[k] = 0
           /\ \A k \in Sockets : ~sess[s].flags[k]

\* C19: a forwarder closes sockets and sets closed-flags only in the block
\* branch; however else it ends (EOF, socket error, shutting_down, the flags),
\* both sockets stay open and both flags stay as they were until the cleanup.
C19_OnlyBlockCloses == []C19_EndedUnblockedLeavesSockets /\ [][C19_ForwarderStep]_vars

\* Both forwarders have returned, one of them after reading a chunk and
\* neither through the block branch, and the manager has not yet cleaned up:
\* both sockets are open and no flag is set.
C19_Witness ==
    \E s \in Sessions :
        /\ sess[s].pc = "join"
        /\ \A d \in Directions : fwd[s][d].pc = "done"
        /\ readLog[s]["Request"] # <<>>
        /\ \A k \in Sockets : sess[s].sock[k] = "open" /\ ~sess[s].flags[k]

C20_ResponseUntouched ==
    \A s \in Sessions :
        LET f == fwd[s]["Response"]
            log == readLog[s]["Response"]
            sent == sentLog[s]["Response"]
        IN /\ f.pc \notin {"count", "store", "send403", "close", "flag"}
           /\ ~f.blocked
           /\ f.pc = "send" => f.n \in 1..Len(log) /\ f.data = log[f.n]
           /\ \A i \in 1..Len(sent) :
                 sent[i].n \in 1..Len(log) /\ sent[i].data = log[sent[i].n]

\* A step of the Response forwarder alone changes neither the counter nor the
\* responses sent to the client nor what the Request forwarder has written.
C20_ResponseStep ==
    \A s \in Sessions :
        (fwd'[s]["Response"] # fwd[s]["Response"] /\ fwd'[s]["Request"] = fwd[s]["Request"]
           /\ sess[s].pc = "join")
        => /\ UNCHANGED <<url_counter, url_counter_lock>>
           /\ sess'[s].replies = sess[s].replies
           /\ sentLog'[s]["Request"] = sentLog[s]["Request"]

\* C20: the Response forwarder never inspects, counts, blocks or rewrites a
\* chunk: what it writes to the client is what it read from the upstream,
\* byte for byte, whatever the chunk holds and whatever policy is configured.
C20_ResponseForwardedAsRead == []C20_ResponseUntouched /\ [][C20_ResponseStep]_vars

\* With block and inject both configured, a chunk from the upstream that
\* holds the marker and the block substring has been written to the client.
C20_Witness ==
    /\ block_url # <<>> /\ inject_header # <<>>
    /\ \E s \in Sessions :
          \E i \in 1..Len(sentLog[s]["Response"]) :
              /\ Contains(sentLog[s]["Response"][i].data, HTTP_MARKER)
              /\ Contains(sentLog[s]["Response"][i].data, block_url)

=============================================================================
